---------------------------- MODULE Spec2Model ----------------------------
(***************************************************************************)
(* Model of packages/python/translate.py: the Tcl value codec              *)
(* (tcl_value2python_value, python_value2tcl_value), set_nested_dict,      *)
(* merge_dicts and process_config_inputs.                                  *)
(*                                                                         *)
(* A Python str is a sequence of one-character strings.  A Python value    *)
(* that is either a str or a list is a record with a kind field:           *)
(*   Str(s)  = [k |-> "S", s |-> s, l |-> <<>>]                            *)
(*   Lst(l)  = [k |-> "L", s |-> <<>>, l |-> l]                            *)
(* A Python dict is a function from keys to entries; a dict held by        *)
(* reference is an index into the heap (see the merge section).            *)
(***************************************************************************)
EXTENDS Integers, Sequences, FiniteSets, TLC

VARIABLES
    \* ---- value codec
    text,        \* the str handed to tcl_value2python_value
    parsed,      \* its result
    value,       \* the value handed to python_value2tcl_value
    rendered,    \* its result
    reparsed,    \* tcl_value2python_value(rendered)
    cstep,       \* position of the codec run
    \* ---- dict objects and merge_dicts
    heap,        \* the dict objects, by identity: heap[r] is the dict with id r
    roots,       \* ids of the dicts a caller of merge_dicts holds
    calls,       \* the merge_dicts calls made so far, with the argument
                 \* values at call time
    \* ---- process_config_inputs
    inputs,      \* the inputs argument: dict ids and file paths
    idx,         \* 1-based position of the loop (Python's i + 1)
    source_dicts,\* ordered dict: sequence of [name, ref] in insertion order
    merged_dict, \* id of the dict merged_dict is bound to
    reads,       \* the inputs read so far: position, name given, tree value
    written,     \* what the output step wrote
    apc,         \* position of process_config_inputs
    \* ---- set_nested_dict
    target,      \* the dict set_nested_dict is called on (its argument d)
    target_before, \* target before the last call
    keys_arg,    \* the keys argument of the last call
    value_arg,   \* the value argument of the last call
    raised,      \* whether the last call raised
    assigned,    \* the [keys, value] pairs of the calls that returned,
                 \* the last value for each keys
    ncalls       \* number of calls made

codecVars == <<text, parsed, value, rendered, reparsed, cstep>>
mergeVars == <<heap, roots, calls>>
aggVars == <<inputs, idx, source_dicts, merged_dict, reads, written, apc>>
nestedVars == <<target, target_before, keys_arg, value_arg, raised, assigned, ncalls>>
vars == <<codecVars, mergeVars, aggVars, nestedVars>>

----------------------------------------------------------------------------
(* Bounds *)

MaxLen == 5
MaxCalls == 2
MaxInputs == 4
MaxPathLen == 2
MaxSets == 3

----------------------------------------------------------------------------
(* Python str and list helpers *)

Str(s) == [k |-> "S", s |-> s, l |-> <<>>]
Lst(l) == [k |-> "L", s |-> <<>>, l |-> l]
NoValue == [k |-> "N", s |-> <<>>, l |-> <<>>]

\* str.isspace for the characters of the alphabet
IsSpace(c) == c \in {" ", "\t"}

RECURSIVE lstrip(_)
lstrip(s) == IF s # <<>> /\ IsSpace(Head(s)) THEN lstrip(Tail(s)) ELSE s

RECURSIVE rstrip(_)
rstrip(s) ==
    IF s # <<>> /\ IsSpace(s[Len(s)]) THEN rstrip(SubSeq(s, 1, Len(s) - 1)) ELSE s

\* str.strip()
strip(s) == rstrip(lstrip(s))

\* str.split(): the maximal runs of non-whitespace characters
RECURSIVE split_from(_, _, _)
split_from(s, words, cur) ==
    IF s = <<>> THEN (IF cur = <<>> THEN words ELSE Append(words, cur))
    ELSE IF IsSpace(Head(s))
         THEN split_from(Tail(s), IF cur = <<>> THEN words ELSE Append(words, cur), <<>>)
         ELSE split_from(Tail(s), words, Append(cur, Head(s)))

split(s) == split_from(s, <<>>, <<>>)

\* sep.join(parts)
RECURSIVE join(_, _)
join(sep, parts) ==
    IF parts = <<>> THEN <<>>
    ELSE IF Len(parts) = 1 THEN parts[1]
    ELSE parts[1] \o sep \o join(sep, Tail(parts))

\* c in s
Contains(s, c) == \E n \in 1..Len(s) : s[n] = c

HasBrace(s) == Contains(s, "{") \/ Contains(s, "}")

ListOpen == <<"[", "l", "i", "s", "t", " ">>
ListClose == <<"]">>
EmptyRepr == <<"\"", "\"">>

\* f"[list {' '.join(parts)}]"
ListForm(parts) == ListOpen \o join(<<" ">>, parts) \o ListClose

----------------------------------------------------------------------------
(* tcl_value2python_value *)

\* `if current: result.append(''.join(current).strip())`
Flush(result, current) ==
    IF current # <<>> THEN Append(result, Str(strip(current))) ELSE result

\* parse_list(s, start): start and the returned position are 1-based here
\* (position p is Python index p - 1).
RECURSIVE parse_loop(_, _, _, _)
parse_loop(s, i, result, current) ==
    IF i > Len(s) THEN [res |-> Flush(result, current), i |-> i]
    ELSE IF s[i] = "{" THEN
        LET nested == parse_loop(s, i + 1, <<>>, <<>>)
        IN  \* i = new_i, then the loop's i += 1
            parse_loop(s, nested.i + 1,
                       Append(Flush(result, current), Lst(nested.res)), <<>>)
    ELSE IF s[i] = "}" THEN [res |-> Flush(result, current), i |-> i + 1]
    ELSE IF s[i] = " " /\ current # <<>> THEN
        parse_loop(s, i + 1, Append(result, Str(strip(current))), <<>>)
    ELSE parse_loop(s, i + 1, result, Append(current, s[i]))

parse_list(s, start) == parse_loop(s, start, <<>>, <<>>)

\* tcl_value2python_value without the `value = value.strip()` of line 34
tcl_value2python_value_nostrip(v) ==
    IF v = <<>> THEN Str(<<>>)
    ELSE IF ~HasBrace(v) THEN Str(v)
    ELSE IF Head(v) = "{" /\ v[Len(v)] = "}"
         THEN Lst(parse_list(v, 2).res)
         ELSE Lst(parse_list(v, 1).res)

tcl_value2python_value(v) ==
    LET stripped == strip(v)
    IN  IF stripped = <<>> THEN Str(<<>>)
        ELSE IF ~HasBrace(stripped) THEN Str(stripped)
        ELSE IF Head(stripped) = "{" /\ stripped[Len(stripped)] = "}"
             THEN Lst(parse_list(stripped, 2).res)
             ELSE Lst(parse_list(stripped, 1).res)

----------------------------------------------------------------------------
(* python_value2tcl_value *)

\* the str branch for a str with a brace: the loop over the characters
RECURSIVE brace_loop(_, _, _, _)
brace_loop(s, parts, current, brace_level) ==
    IF s = <<>> THEN
        (IF strip(current) # <<>> THEN parts \o split(strip(current)) ELSE parts)
    ELSE LET char == Head(s) IN
        IF char = "{" THEN
            IF brace_level = 0 /\ current # <<>>
            THEN brace_loop(Tail(s), parts \o split(strip(current)),
                            <<char>>, brace_level + 1)
            ELSE brace_loop(Tail(s), parts, Append(current, char), brace_level + 1)
        ELSE IF char = "}" THEN
            IF brace_level - 1 = 0
            THEN LET inner_content == strip(current)
                 IN  brace_loop(Tail(s),
                                IF inner_content # <<>>
                                THEN Append(parts, ListForm(split(inner_content)))
                                ELSE parts,
                                <<>>, 0)
            ELSE brace_loop(Tail(s), parts, Append(current, char), brace_level - 1)
        ELSE brace_loop(Tail(s), parts, Append(current, char), brace_level)

\* render_str testing for any whitespace where line 155 tests for ' '
render_str_anyspace(s) ==
    IF HasBrace(s) THEN ListForm(brace_loop(s, <<>>, <<>>, 0))
    ELSE IF \E n \in 1..Len(s) : IsSpace(s[n]) THEN ListOpen \o s \o ListClose
    ELSE s

render_str(s) ==
    IF HasBrace(s) THEN ListForm(brace_loop(s, <<>>, <<>>, 0))
    ELSE IF Contains(s, " ") THEN ListOpen \o s \o ListClose
    ELSE s

RECURSIVE python_value2tcl_value(_)

\* one element of a list
render_item(item) ==
    IF item.k = "L" THEN python_value2tcl_value(item)
    ELSE IF Contains(item.s, " ") \/ HasBrace(item.s)
         THEN <<"{">> \o item.s \o <<"}">>
    ELSE IF item.s = <<>> THEN EmptyRepr
    ELSE item.s

python_value2tcl_value(v) ==
    IF v.k = "S" /\ v.s = <<>> THEN EmptyRepr
    ELSE IF v.k = "L" /\ v.l = <<>> THEN EmptyRepr
    ELSE IF v.k = "L"
         THEN ListForm([n \in 1..Len(v.l) |-> render_item(v.l[n])])
         ELSE render_str(v.s)

----------------------------------------------------------------------------
(* The part of the state a run leaves alone *)

IdleCodec ==
    /\ text = <<>>
    /\ parsed = NoValue
    /\ value = NoValue
    /\ rendered = <<>>
    /\ reparsed = NoValue
    /\ cstep = "idle"

IdleHeap == heap = <<>>

IdleCalls == roots = <<>> /\ calls = <<>>

IdleAgg ==
    /\ inputs = <<>>
    /\ idx = 0
    /\ source_dicts = <<>>
    /\ merged_dict = 0
    /\ reads = <<>>
    /\ written = [kind |-> "none"]
    /\ apc = "idle"

IdleNested ==
    /\ target = <<>>
    /\ target_before = <<>>
    /\ keys_arg = <<>>
    /\ value_arg = ""
    /\ raised = FALSE
    /\ assigned = {}
    /\ ncalls = 0

----------------------------------------------------------------------------
(* Dicts.  A tree value is a function from keys to entries, an entry a     *)
(* terminal value or a nested tree.  A dict object lives in the heap: its  *)
(* cells hold a terminal value or the id of another dict object, so that   *)
(* two dicts can share a nested dict and a write through one is seen       *)
(* through the other.                                                      *)

EmptyDict == <<>>

Leaf(v) == [k |-> "V", v |-> v, t |-> <<>>]
Sub(t) == [k |-> "T", v |-> "", t |-> t]

Val(v) == [k |-> "V", v |-> v, r |-> 0]
Ref(r) == [k |-> "R", v |-> "", r |-> r]

\* the value of the dict object r, with the nested dicts it refers to
RECURSIVE Deref(_, _)
Deref(h, r) ==
    [key \in DOMAIN h[r] |->
        IF h[r][key].k = "V" THEN Leaf(h[r][key].v)
        ELSE Sub(Deref(h, h[r][key].r))]

\* d[key] = cell
SetItem(h, r, key, cell) == [h EXCEPT ![r] = (key :> cell) @@ h[r]]

\* a dict literal: builds the objects of tree t, nested dicts first
RECURSIVE NewDict(_, _)
RECURSIVE NewDictItems(_, _, _, _)
NewDictItems(h, r, t, keys) ==
    IF keys = {} THEN [h |-> h, r |-> r]
    ELSE LET key == CHOOSE x \in keys : TRUE
         IN  IF t[key].k = "V"
             THEN NewDictItems(SetItem(h, r, key, Val(t[key].v)), r, t, keys \ {key})
             ELSE LET nested == NewDict(h, t[key].t)
                  IN  NewDictItems(SetItem(nested.h, r, key, Ref(nested.r)),
                                   r, t, keys \ {key})

NewDict(h, t) == NewDictItems(Append(h, EmptyDict), Len(h) + 1, t, DOMAIN t)

----------------------------------------------------------------------------
(* merge_dicts *)

\* `result = dict1` where line 386 has `result = dict1.copy()`
CopyDict_alias(h, r) == [h |-> h, r |-> r]

\* dict.copy(): a new object with the same cells (the nested dicts shared)
CopyDict(h, r) == [h |-> Append(h, h[r]), r |-> Len(h) + 1]

RECURSIVE merge_dicts(_, _, _, _)

\* `key in result and isinstance(result[key], dict) and isinstance(value, dict)`
BothDicts(h, result, key, val) ==
    key \in DOMAIN h[result] /\ h[result][key].k = "R" /\ val.k = "R"

\* line 392 without `or overwrite`
TakesIncoming_new_only(h, result, key, overwrite) == key \notin DOMAIN h[result]

\* `key not in result or overwrite`
TakesIncoming(h, result, key, overwrite) ==
    key \notin DOMAIN h[result] \/ overwrite

\* `for key, value in dict2.items()` over the keys still to visit
RECURSIVE merge_items(_, _, _, _, _)
merge_items(h, result, dict2, keys, overwrite) ==
    IF keys = {} THEN [h |-> h, r |-> result]
    ELSE LET key == CHOOSE x \in keys : TRUE
             val == h[dict2][key]
         IN  IF BothDicts(h, result, key, val)
             THEN LET m == merge_dicts(h, h[result][key].r, val.r, overwrite)
                  IN  merge_items(SetItem(m.h, result, key, Ref(m.r)),
                                  result, dict2, keys \ {key}, overwrite)
             ELSE IF TakesIncoming(h, result, key, overwrite)
             THEN merge_items(SetItem(h, result, key, val),
                              result, dict2, keys \ {key}, overwrite)
             ELSE merge_items(h, result, dict2, keys \ {key}, overwrite)

merge_dicts(h, dict1, dict2, overwrite) ==
    LET c == CopyDict(h, dict1)
    IN  merge_items(c.h, c.r, dict2, DOMAIN c.h[dict2], overwrite)

----------------------------------------------------------------------------
(* Callers of merge_dicts: three dicts are built, then merge_dicts is      *)
(* called on any two dicts the caller holds, results of earlier calls      *)
(* included.                                                               *)

Keys == {"a"}
InnerKeys == {"c"}

\* the trees over keys ks whose entries come from es
TreesOver(ks, es) == UNION {[d -> es] : d \in SUBSET ks}

\* trees with terminal value v: empty, a terminal value, or a nested dict
\* holding one
Trees(v) == TreesOver(Keys, {Leaf(v), Sub("c" :> Leaf(v))})

\* the example of the docstring of merge_dicts
DocDict1 == ("a" :> Leaf("1") @@ "b" :> Sub("c" :> Leaf("2")))
DocDict2 == ("b" :> Sub("d" :> Leaf("3")) @@ "e" :> Leaf("4"))

\* the three dicts a caller starts with
TreeTriples ==
    { <<t1, t2, ("a" :> Sub("c" :> Leaf("v3")))>> : t1 \in Trees("v1"), t2 \in Trees("v2") }
        \cup { <<DocDict1, DocDict2, EmptyDict>>,
               <<("a" :> Sub(EmptyDict) @@ "b" :> Leaf("v1")),
                 ("a" :> Sub("c" :> Leaf("v2")) @@ "b" :> Sub("c" :> Leaf("v2"))),
                 ("b" :> Sub(EmptyDict))>>,
               <<("a" :> Sub("c" :> Leaf("v1") @@ "d" :> Leaf("v1"))),
                 ("a" :> Sub("c" :> Leaf("v2")) @@ "b" :> Leaf("v2")),
                 ("a" :> Leaf("v3") @@ "b" :> Sub("c" :> Leaf("v3")))>> }

InitMerge ==
    /\ IdleCodec
    /\ IdleAgg
    /\ IdleNested
    /\ \E triple \in TreeTriples :
          LET d1 == NewDict(<<>>, triple[1])
              d2 == NewDict(d1.h, triple[2])
              d3 == NewDict(d2.h, triple[3])
          IN  /\ heap = d3.h
              /\ roots = <<d1.r, d2.r, d3.r>>
    /\ calls = <<>>

MergeCall(dict1, dict2, overwrite) ==
    /\ Len(calls) < MaxCalls
    /\ LET m == merge_dicts(heap, dict1, dict2, overwrite)
       IN  /\ heap' = m.h
           /\ roots' = Append(roots, m.r)
           /\ calls' = Append(calls,
                  [dict1 |-> dict1, dict2 |-> dict2, overwrite |-> overwrite,
                   result |-> m.r,
                   before1 |-> Deref(heap, dict1),
                   before2 |-> Deref(heap, dict2)])
    /\ UNCHANGED <<codecVars, aggVars, nestedVars>>

NextMerge ==
    \E n1 \in 1..Len(roots), n2 \in 1..Len(roots), overwrite \in BOOLEAN :
        MergeCall(roots[n1], roots[n2], overwrite)

SpecMerge == InitMerge /\ [][NextMerge]_vars

----------------------------------------------------------------------------
(* The codec run: parse a text, render the text or the parsed value,      *)
(* parse the rendering again.                                              *)

Alphabet == {"a", "b", " ", "\t", "{", "}"}

RECURSIVE SeqsUpTo(_, _)
SeqsUpTo(S, n) ==
    IF n = 0 THEN {<<>>}
    ELSE LET shorter == SeqsUpTo(S, n - 1)
         IN  shorter \cup {Append(s, c) : s \in {t \in shorter : Len(t) = n - 1}, c \in S}

\* the examples of the two docstrings
DocTexts ==
    { <<"a", " ", "b", " ", "{", "c", " ", "d", "}", " ", "e">>,
      <<"{", "a", " ", "b", "}">>,
      <<"s", "i", "m", "p", "l", "e", " ", "s", "t", "r", "i", "n", "g">> }

Texts == SeqsUpTo(Alphabet, MaxLen) \cup DocTexts

InitCodec ==
    /\ IdleHeap
    /\ IdleCalls
    /\ IdleAgg
    /\ IdleNested
    /\ text \in Texts
    /\ parsed = NoValue
    /\ value = NoValue
    /\ rendered = <<>>
    /\ reparsed = NoValue
    /\ cstep = "start"

ParseValue ==
    /\ cstep = "start"
    /\ parsed' = tcl_value2python_value(text)
    /\ cstep' = "parsed"
    /\ UNCHANGED <<text, value, rendered, reparsed, mergeVars, aggVars, nestedVars>>

RenderValue ==
    /\ cstep = "parsed"
    /\ \E v \in {Str(text), parsed} :
        /\ value' = v
        /\ rendered' = python_value2tcl_value(v)
    /\ cstep' = "rendered"
    /\ UNCHANGED <<text, parsed, reparsed, mergeVars, aggVars, nestedVars>>

ReparseValue ==
    /\ cstep = "rendered"
    /\ reparsed' = tcl_value2python_value(rendered)
    /\ cstep' = "done"
    /\ UNCHANGED <<text, parsed, value, rendered, mergeVars, aggVars, nestedVars>>

NextCodec == ParseValue \/ RenderValue \/ ReparseValue

SpecCodec == InitCodec /\ [][NextCodec]_vars

----------------------------------------------------------------------------
(* process_config_inputs *)

BasicName == "Basic Appendix info"
FixedName == "Fixed Appendix info"
ApplyName == "Appendix info apply"

\* lines 429-432 with the second `if` as an `elif`
source_name_elif(i, n) ==
    IF i = 1 THEN BasicName ELSE IF i = n THEN FixedName ELSE ApplyName

\* the name given to the dict input at position i (1-based) of n inputs:
\* the default, then `if i == 0`, then `if i == len(inputs) - 1`
source_name(i, n) ==
    LET name0 == ApplyName
        name1 == IF i = 1 THEN BasicName ELSE name0
    IN  IF i = n THEN FixedName ELSE name1

\* os.path.splitext(path)[1].lower() for the paths of the model
Paths == {"t1.tcl", "t1.yaml", "bad.tcl", "t1.txt"}

Ext(path) ==
    CASE path = "t1.tcl"  -> ".tcl"
      [] path = "t1.yaml" -> ".yaml"
      [] path = "bad.tcl" -> ".tcl"
      [] path = "t1.txt"  -> ".txt"

SupportedExt == {".tcl", ".yaml", ".yml"}

\* the files a reader can read, and the tree each holds; reading bad.tcl
\* raises (the Tcl interpreter fails to source it)
Readable == {"t1.tcl", "t1.yaml"}

FileTree(path) ==
    CASE path = "t1.tcl"  -> ("var2" :> Leaf("tcl") @@ "arr" :> Sub("x" :> Leaf("tcl")))
      [] path = "t1.yaml" -> ("var3" :> Leaf("yaml") @@ "arr" :> Sub("y" :> Leaf("yaml")))

\* tcl_to_dict / yaml_to_dict: a new dict holding the content of the file
read_file(h, path) == NewDict(h, FileTree(path))

\* source_dicts[name] = ref, on a dict that keeps insertion order
PutOrdered(d, name, ref) ==
    IF \E n \in 1..Len(d) : d[n].name = name
    THEN [n \in 1..Len(d) |-> IF d[n].name = name THEN [name |-> name, ref |-> ref] ELSE d[n]]
    ELSE Append(d, [name |-> name, ref |-> ref])

\* line 453 always taking `current_dict.copy()`
Accumulate_last(h, merged, current) == CopyDict(h, current)

\* `merge_dicts(merged_dict, current_dict) if merged_dict else current_dict.copy()`
Accumulate(h, merged, current) ==
    IF h[merged] # EmptyDict
    THEN merge_dicts(h, merged, current, TRUE)
    ELSE CopyDict(h, current)

\* lines 449-453 of the loop body, for the input at idx read as current
StoreAndMerge(h, name, current) ==
    LET acc == Accumulate(h, merged_dict, current)
    IN  /\ source_dicts' = PutOrdered(source_dicts, name, current)
        /\ heap' = acc.h
        /\ merged_dict' = acc.r
        /\ reads' = Append(reads, [pos |-> idx, kind |-> inputs[idx].kind,
                                   name |-> name, tree |-> Deref(h, current)])
        /\ idx' = idx + 1

\* the inputs a caller passes
LiteralTrees ==
    { EmptyDict,
      ("var1" :> Leaf("value1") @@ "var2" :> Leaf("value2")),
      ("var2" :> Leaf("value2b")),
      ("arr" :> Sub("x" :> Leaf("lit")) @@ "var3" :> Leaf("lit")) }

Items ==
    {[kind |-> "dict", tree |-> t, path |-> ""] : t \in LiteralTrees}
        \cup {[kind |-> "file", tree |-> EmptyDict, path |-> p] : p \in Paths}

\* builds the dict objects of the literal inputs; inputs hold their ids
RECURSIVE LoadInputs(_, _, _)
LoadInputs(items, h, acc) ==
    IF items = <<>> THEN [h |-> h, inputs |-> acc]
    ELSE LET it == Head(items)
         IN  IF it.kind = "dict"
             THEN LET d == NewDict(h, it.tree)
                  IN  LoadInputs(Tail(items), d.h,
                                 Append(acc, [kind |-> "dict", ref |-> d.r, path |-> ""]))
             ELSE LoadInputs(Tail(items), h,
                             Append(acc, [kind |-> "file", ref |-> 0, path |-> it.path]))

InitAgg ==
    /\ IdleCodec
    /\ IdleCalls
    /\ IdleNested
    /\ \E items \in SeqsUpTo(Items, MaxInputs) :
          LET loaded == LoadInputs(items, <<>>, <<>>)
              merged == NewDict(loaded.h, EmptyDict)
          IN  /\ heap = merged.h
              /\ inputs = loaded.inputs
              /\ merged_dict = merged.r
    /\ idx = 1
    /\ source_dicts = <<>>
    /\ reads = <<>>
    /\ written = [kind |-> "none"]
    /\ apc = "loop"

\* loop body, `isinstance(input_item, dict)`
ProcessDict ==
    /\ apc = "loop" /\ idx <= Len(inputs)
    /\ inputs[idx].kind = "dict"
    /\ StoreAndMerge(heap, source_name(idx, Len(inputs)), inputs[idx].ref)
    /\ UNCHANGED <<inputs, written, apc, codecVars, roots, calls, nestedVars>>

\* loop body, a file with a supported extension that its reader reads
ProcessFile ==
    /\ apc = "loop" /\ idx <= Len(inputs)
    /\ inputs[idx].kind = "file"
    /\ Ext(inputs[idx].path) \in SupportedExt
    /\ inputs[idx].path \in Readable
    /\ LET d == read_file(heap, inputs[idx].path)
       IN  StoreAndMerge(d.h, inputs[idx].path, d.r)
    /\ UNCHANGED <<inputs, written, apc, codecVars, roots, calls, nestedVars>>

\* loop body, a file whose reader raises: `except Exception: continue`
FailFile ==
    /\ apc = "loop" /\ idx <= Len(inputs)
    /\ inputs[idx].kind = "file"
    /\ Ext(inputs[idx].path) \in SupportedExt
    /\ inputs[idx].path \notin Readable
    /\ idx' = idx + 1
    /\ UNCHANGED <<inputs, source_dicts, merged_dict, reads, written, apc,
                   heap, codecVars, roots, calls, nestedVars>>

\* loop body, a file with another extension: warning, `continue`
SkipFile ==
    /\ apc = "loop" /\ idx <= Len(inputs)
    /\ inputs[idx].kind = "file"
    /\ Ext(inputs[idx].path) \notin SupportedExt
    /\ idx' = idx + 1
    /\ UNCHANGED <<inputs, source_dicts, merged_dict, reads, written, apc,
                   heap, codecVars, roots, calls, nestedVars>>

OutputFiles == {"", "merged.tcl", "merged.yaml", "merged.txt"}

OutExt(path) ==
    CASE path = "merged.tcl"  -> ".tcl"
      [] path = "merged.yaml" -> ".yaml"
      [] path = "merged.txt"  -> ".txt"

\* dict_to_tcl(source_dicts, output_file, with_source=True): the header
\* names and one section per item of source_dicts (a section's `set` lines
\* are kept as the tree they are generated from)
dict_to_tcl(h, data) ==
    [kind |-> "tcl",
     header |-> [n \in 1..Len(data) |-> data[n].name],
     sections |-> [n \in 1..Len(data) |->
                      [name |-> data[n].name, tree |-> Deref(h, data[n].ref)]]]

\* dict_to_yaml(merged_dict, output_file)
dict_to_yaml(h, data) == [kind |-> "yaml", tree |-> Deref(h, data)]

\* after the loop: write the output, return (merged_dict, source_dicts)
WriteOutput(output_file) ==
    /\ apc = "loop" /\ idx > Len(inputs)
    /\ written' =
          IF output_file = "" THEN [kind |-> "none"]
          ELSE IF OutExt(output_file) = ".tcl" THEN dict_to_tcl(heap, source_dicts)
          ELSE IF OutExt(output_file) \in {".yaml", ".yml"}
               THEN dict_to_yaml(heap, merged_dict)
          ELSE [kind |-> "unsupported"]
    /\ apc' = "done"
    /\ UNCHANGED <<inputs, idx, source_dicts, merged_dict, reads,
                   heap, codecVars, roots, calls, nestedVars>>

NextAgg ==
    \/ ProcessDict
    \/ ProcessFile
    \/ FailFile
    \/ SkipFile
    \/ \E output_file \in OutputFiles : WriteOutput(output_file)

SpecAgg == InitAgg /\ [][NextAgg]_vars

----------------------------------------------------------------------------
(* set_nested_dict, called as tcl_to_dict calls it: on one dict, once per  *)
(* array element, the keys being the comma-separated parts of the element  *)
(* name.  The dicts it creates are new and held nowhere else, so the dict  *)
(* is kept as a tree value.  A terminal value is a str or a list: neither  *)
(* has setdefault nor takes a str index, so going through one raises.      *)

\* d.setdefault(key, {}): d afterwards
setdefault(t, key) == IF key \in DOMAIN t THEN t ELSE (key :> Sub(EmptyDict)) @@ t

\* set_nested_dict putting a new dict in place of a terminal value on its
\* way instead of raising
RECURSIVE set_nested_dict_replacing(_, _, _)
set_nested_dict_replacing(t, keys, val) ==
    IF Len(keys) = 1
    THEN [d |-> (keys[1] :> Leaf(val)) @@ t, raised |-> FALSE]
    ELSE LET key == Head(keys)
             t1 == IF key \in DOMAIN t /\ t[key].k = "T" THEN t
                   ELSE (key :> Sub(EmptyDict)) @@ t
             r == set_nested_dict_replacing(t1[key].t, Tail(keys), val)
         IN  [d |-> [t1 EXCEPT ![key] = Sub(r.d)], raised |-> FALSE]

\* the walk over keys[:-1] and the final assignment, on the dict value t;
\* the result holds what t has become and whether the call raised
RECURSIVE set_nested_dict(_, _, _)
set_nested_dict(t, keys, val) ==
    IF Len(keys) = 1
    THEN [d |-> (keys[1] :> Leaf(val)) @@ t, raised |-> FALSE]
    ELSE LET key == Head(keys)
             t1 == setdefault(t, key)
             current == t1[key]
         IN  IF current.k = "V"
             THEN [d |-> t1, raised |-> TRUE]
             ELSE LET r == set_nested_dict(current.t, Tail(keys), val)
                  IN  [d |-> [t1 EXCEPT ![key] = Sub(r.d)], raised |-> r.raised]

PathKeys == {"a", "b"}
PathValues == {"1", "2"}

KeyPaths == SeqsUpTo(PathKeys, MaxPathLen) \ {<<>>}

InitNested ==
    /\ IdleCodec
    /\ IdleHeap
    /\ IdleCalls
    /\ IdleAgg
    /\ target = EmptyDict
    /\ target_before = EmptyDict
    /\ keys_arg = <<>>
    /\ value_arg = ""
    /\ raised = FALSE
    /\ assigned = {}
    /\ ncalls = 0

\* one `set_nested_dict(result[var], key_parts, value)` of tcl_to_dict, the
\* exception, if any, caught by the caller
SetNested(keys, val) ==
    /\ ncalls < MaxSets
    /\ LET r == set_nested_dict(target, keys, val)
       IN  /\ target' = r.d
           /\ raised' = r.raised
           /\ assigned' =
                 IF r.raised THEN assigned
                 ELSE {a \in assigned : a.keys # keys} \cup {[keys |-> keys, val |-> val]}
    /\ target_before' = target
    /\ keys_arg' = keys
    /\ value_arg' = val
    /\ ncalls' = ncalls + 1
    /\ UNCHANGED <<codecVars, mergeVars, aggVars>>

NextNested == \E keys \in KeyPaths, val \in PathValues : SetNested(keys, val)

SpecNested == InitNested /\ [][NextNested]_vars

----------------------------------------------------------------------------
(* Reading of the value grammar used to state the codec claims: written    *)
(* from the wording of the claims, not from the code.                      *)

\* s without its leading and trailing whitespace
Trimmed(s) ==
    LET inked == {n \in 1..Len(s) : ~IsSpace(s[n])}
    IN  IF inked = {} THEN <<>>
        ELSE SubSeq(s, CHOOSE n \in inked : \A m \in inked : n <= m,
                       CHOOSE n \in inked : \A m \in inked : n >= m)

\* brace depth after the first n characters of s
DepthAt(s, n) ==
    Cardinality({m \in 1..n : s[m] = "{"}) - Cardinality({m \in 1..n : s[m] = "}"})

Balanced(s) ==
    /\ \A n \in 1..Len(s) : DepthAt(s, n) >= 0
    /\ DepthAt(s, Len(s)) = 0

\* one single brace pair encloses the whole of t
IsGroup(t) ==
    /\ Len(t) >= 2
    /\ t[1] = "{"
    /\ Balanced(t)
    /\ \A n \in 1..(Len(t) - 1) : DepthAt(t, n) >= 1

Interior(t) == SubSeq(t, 2, Len(t) - 1)

\* the whitespace-delimited tokens of s at brace depth 0
RECURSIVE TopTokensFrom(_, _, _, _)
TopTokensFrom(s, n, toks, cur) ==
    IF n > Len(s) THEN (IF cur = <<>> THEN toks ELSE Append(toks, cur))
    ELSE IF IsSpace(s[n]) /\ DepthAt(s, n) = 0
         THEN TopTokensFrom(s, n + 1, IF cur = <<>> THEN toks ELSE Append(toks, cur), <<>>)
         ELSE TopTokensFrom(s, n + 1, toks, Append(cur, s[n]))

TopTokens(s) == TopTokensFrom(s, 1, <<>>, <<>>)

\* every token of s is a bare word or one brace group, at every level
RECURSIVE WellFormed(_)
WellFormed(s) ==
    /\ Balanced(s)
    /\ LET toks == TopTokens(s)
       IN  \A n \in 1..Len(toks) :
              \/ ~HasBrace(toks[n])
              \/ IsGroup(toks[n]) /\ WellFormed(Interior(toks[n]))

\* the items the claim gives for the token stream s
RECURSIVE TokenItems(_)
TokenItems(s) ==
    LET toks == TopTokens(s)
    IN  [n \in 1..Len(toks) |->
            IF IsGroup(toks[n]) THEN Lst(TokenItems(Interior(toks[n])))
            ELSE Str(toks[n])]

ExpectedParse(s) ==
    LET t == Trimmed(s)
    IN  IF IsGroup(t) THEN Lst(TokenItems(Interior(t))) ELSE Lst(TokenItems(t))

\* the elements the claim gives for a str whose brace groups are not nested
RECURSIVE ExpectedParts(_)
ExpectedParts(s) ==
    IF ~Contains(s, "{") THEN split(s)
    ELSE LET open == CHOOSE n \in 1..Len(s) :
                        s[n] = "{" /\ \A m \in 1..(n - 1) : s[m] # "{"
             close == CHOOSE n \in open..Len(s) :
                        s[n] = "}" /\ \A m \in open..(n - 1) : s[m] # "}"
         IN  split(SubSeq(s, 1, open - 1))
                \o <<ListForm(split(SubSeq(s, open + 1, close - 1)))>>
                \o ExpectedParts(SubSeq(s, close + 1, Len(s)))

\* balanced, with a brace, groups not nested and none without a word
FlatGroups(s) ==
    /\ Balanced(s)
    /\ HasBrace(s)
    /\ \A n \in 1..Len(s) : DepthAt(s, n) <= 1
    /\ \A n \in 1..Len(s) :
          s[n] = "{" => \E m \in (n + 1)..Len(s) :
                           /\ ~IsSpace(s[m]) /\ s[m] # "}"
                           /\ \A j \in n..m : s[j] # "}"

----------------------------------------------------------------------------
(* Claims about the value codec (specification SpecCodec)                  *)

\* C6 (as claimed): for a text with a brace whose tokens are bare words and
\* brace groups, tcl_value2python_value returns exactly the top-level tokens
\* in order, a brace group as the list of its interior's tokens, the outer
\* pair stripped only when one single pair encloses the whole text.
C6_TokensAsClaimed ==
    (cstep # "start" /\ HasBrace(Trimmed(text)) /\ WellFormed(Trimmed(text)))
        => parsed = ExpectedParse(text)

C8_RoundTripAsClaimed == cstep = "done" => reparsed = value

\* C8 (amended): parsing the rendering of v gives v back for every scalar v
\* that is non-empty, has no brace and no space character and no leading or
\* trailing whitespace.
C8_RoundTripPlainScalar ==
    ( /\ cstep = "done"
      /\ value.k = "S"
      /\ value.s # <<>>
      /\ ~HasBrace(value.s)
      /\ ~Contains(value.s, " ")
      /\ Trimmed(value.s) = value.s )
        => reparsed = value

\* C8 witness: a plain scalar with an inner tab has made the round trip.
C8_Witness ==
    /\ cstep = "done"
    /\ value.k = "S"
    /\ Len(value.s) >= 3
    /\ ~HasBrace(value.s)
    /\ ~Contains(value.s, " ")
    /\ Contains(value.s, "\t")
    /\ Trimmed(value.s) = value.s
    /\ reparsed = value

\* C9 (as claimed): a scalar text with balanced brace groups renders as one
\* list constructor over the bare words and, for each top-level group, a
\* list constructor over the words of its interior, with no brace left.
C9_BraceScalarAsClaimed ==
    (cstep \in {"rendered", "done"} /\ value = Str(text) /\ FlatGroups(text))
        => /\ rendered = ListForm(ExpectedParts(text))
           /\ ~HasBrace(rendered)

----------------------------------------------------------------------------
(* Reading of merge used to state the merge and aggregation claims:        *)
(* written from the wording of the claims, on tree values.                 *)

\* res is the merge of base and incoming as the claim describes it
RECURSIVE IsMergeOf(_, _, _, _)
IsMergeOf(res, base, incoming, overwrite) ==
    /\ DOMAIN res = DOMAIN base \cup DOMAIN incoming
    /\ \A key \in DOMAIN incoming :
          IF key \in DOMAIN base /\ base[key].k = "T" /\ incoming[key].k = "T"
          THEN /\ res[key].k = "T"
               /\ IsMergeOf(res[key].t, base[key].t, incoming[key].t, overwrite)
          ELSE IF key \notin DOMAIN base \/ overwrite
               THEN res[key] = incoming[key]
               ELSE res[key] = base[key]
    /\ \A key \in DOMAIN base \ DOMAIN incoming : res[key] = base[key]

\* merge(base, incoming, overwrite) as a tree value
RECURSIVE MergeRef(_, _, _)
MergeRef(base, incoming, overwrite) ==
    [key \in DOMAIN base \cup DOMAIN incoming |->
        IF key \notin DOMAIN incoming THEN base[key]
        ELSE IF key \notin DOMAIN base THEN incoming[key]
        ELSE IF base[key].k = "T" /\ incoming[key].k = "T"
             THEN Sub(MergeRef(base[key].t, incoming[key].t, overwrite))
        ELSE IF overwrite THEN incoming[key]
        ELSE base[key]]

\* the left fold of merge(., ., overwrite=true) over trees, from the empty tree
RECURSIVE FoldRef(_)
FoldRef(trees) ==
    IF trees = <<>> THEN <<>>
    ELSE MergeRef(FoldRef(SubSeq(trees, 1, Len(trees) - 1)), trees[Len(trees)], TRUE)

\* the input at position n is read: a dict, or a file with a supported
\* extension whose reader returns
IsRead(n) ==
    \/ inputs[n].kind = "dict"
    \/ inputs[n].kind = "file" /\ inputs[n].path \in {"t1.tcl", "t1.yaml"}

\* the tree of the read input at position n
InputTree(n) ==
    IF inputs[n].kind = "dict" THEN Deref(heap, inputs[n].ref)
    ELSE FileTree(inputs[n].path)

\* the positions of the read inputs among the first n, in input order
RECURSIVE ReadPositions(_)
ReadPositions(n) ==
    IF n = 0 THEN <<>>
    ELSE IF IsRead(n) THEN Append(ReadPositions(n - 1), n)
    ELSE ReadPositions(n - 1)

ReadTrees(n) ==
    LET ps == ReadPositions(n) IN [j \in 1..Len(ps) |-> InputTree(ps[j])]

----------------------------------------------------------------------------
(* Claims about merge_dicts (specification SpecMerge)                      *)

\* C1: merge_dicts never changes its arguments: after any sequence of
\* calls, every dict passed as dict1 or dict2 has, at every nesting level,
\* the value it had when it was passed.
C1_ArgumentsUnchanged ==
    \A n \in 1..Len(calls) :
        /\ Deref(heap, calls[n].dict1) = calls[n].before1
        /\ Deref(heap, calls[n].dict2) = calls[n].before2

\* C1 witness: the result of a first call took a nested dict of dict2 by
\* reference, and a second call on that result merged into that very key.
C1_Witness ==
    /\ Len(calls) = 2
    /\ calls[2].dict1 = calls[1].result
    /\ \E key \in DOMAIN heap[calls[1].dict2] :
          /\ heap[calls[1].dict2][key].k = "R"
          /\ key \notin DOMAIN heap[calls[1].dict1]
          /\ key \in DOMAIN heap[calls[2].dict2]
          /\ heap[calls[2].dict2][key].k = "R"
          /\ heap[calls[2].dict2][key].r # heap[calls[1].dict2][key].r
          /\ Deref(heap, heap[calls[2].result][key].r)
                # Deref(heap, heap[calls[1].dict2][key].r)

\* C2: the result of merge_dicts has the union of the key sets and, per key
\* of dict2, the recursive merge when both hold a nested dict, else the
\* dict2 entry when the key is new or overwrite is true, else the dict1
\* entry; keys of dict1 alone keep their entry.
C2_MergeResult ==
    \A n \in 1..Len(calls) :
        IsMergeOf(Deref(heap, calls[n].result),
                  calls[n].before1, calls[n].before2, calls[n].overwrite)

\* C2 witness: a call without overwrite kept a dict1 terminal against a
\* dict2 terminal inside a nested dict both hold; and the docstring example
\* gives the documented result.
C2_Witness ==
    /\ Len(calls) = 1
    /\ \/ /\ ~calls[1].overwrite
          /\ \E key \in DOMAIN calls[1].before1 \cap DOMAIN calls[1].before2 :
                /\ calls[1].before1[key] = Sub("c" :> Leaf("v1"))
                /\ calls[1].before2[key] = Sub("c" :> Leaf("v2"))
                /\ Deref(heap, calls[1].result)[key] = Sub("c" :> Leaf("v1"))
       \/ /\ calls[1].overwrite
          /\ calls[1].before1 = DocDict1
          /\ calls[1].before2 = DocDict2
          /\ Deref(heap, calls[1].result) =
                ("a" :> Leaf("1") @@ "e" :> Leaf("4")
                    @@ "b" :> Sub("c" :> Leaf("2") @@ "d" :> Leaf("3")))

----------------------------------------------------------------------------
(* Claims about process_config_inputs (specification SpecAgg)              *)

\* C3: the merged dict is the left fold of merge with overwrite over the
\* inputs read so far, in input order; skipped inputs contribute nothing
\* and do not stop later ones; a yaml output holds that fold.
C3_MergedIsFold ==
    apc \in {"loop", "done"} =>
        /\ Deref(heap, merged_dict) = FoldRef(ReadTrees(idx - 1))
        /\ (apc = "done" /\ written.kind = "yaml")
              => written.tree = FoldRef(ReadTrees(Len(inputs)))

\* C3 witness: a skipped input lies between two read inputs that set the
\* same terminal key differently, and the merged dict holds the later value.
C3_Witness ==
    /\ apc = "done"
    /\ \E n1, n2, n3 \in 1..Len(inputs) :
          /\ n1 < n2 /\ n2 < n3
          /\ IsRead(n1) /\ ~IsRead(n2) /\ IsRead(n3)
          /\ \A m \in (n3 + 1)..Len(inputs) : ~IsRead(m)
          /\ \E key \in DOMAIN InputTree(n1) \cap DOMAIN InputTree(n3) :
                /\ InputTree(n1)[key].k = "V"
                /\ InputTree(n3)[key].k = "V"
                /\ InputTree(n1)[key] # InputTree(n3)[key]
                /\ Deref(heap, merged_dict)[key] = InputTree(n3)[key]

\* C4 (as claimed): at return, source_dicts, and the sections of a tcl
\* output, hold exactly one entry per read input, in input order, each with
\* the tree of its own input.
C4_OneSourceTreePerInput ==
    apc = "done" =>
        LET trees == ReadTrees(Len(inputs))
        IN  /\ Len(source_dicts) = Len(trees)
            /\ \A n \in 1..Len(trees) :
                  Deref(heap, source_dicts[n].ref) = trees[n]
            /\ written.kind = "tcl" =>
                  /\ Len(written.sections) = Len(trees)
                  /\ \A n \in 1..Len(trees) : written.sections[n].tree = trees[n]

\* C5 (as claimed): a dict input is named "Basic Appendix info" when first,
\* "Fixed Appendix info" when last, "Appendix info apply" otherwise; a file
\* input is named by its path; two dict inputs give the names Basic, Fixed.
C5_LabelsAsClaimed ==
    /\ \A n \in 1..Len(reads) :
          LET r == reads[n]
          IN  IF r.kind = "dict"
              THEN /\ r.pos = 1 => r.name = "Basic Appendix info"
                   /\ r.pos = Len(inputs) => r.name = "Fixed Appendix info"
                   /\ r.pos \notin {1, Len(inputs)} => r.name = "Appendix info apply"
              ELSE r.name = inputs[r.pos].path
    /\ (apc = "done" /\ Len(inputs) = 2 /\ \A n \in 1..2 : inputs[n].kind = "dict")
          => [n \in 1..Len(source_dicts) |-> source_dicts[n].name]
                = <<"Basic Appendix info", "Fixed Appendix info">>

\* C5 (amended): a dict input is named "Fixed Appendix info" when it is
\* the last input (also when it is the only one), "Basic Appendix info" when
\* it is the first and not the last, "Appendix info apply" otherwise; a file
\* input that is read is named by its path; two dict inputs give the names
\* Basic, Fixed in that order.
C5_Labels ==
    /\ \A n \in 1..Len(reads) :
          LET r == reads[n]
          IN  IF r.kind = "dict"
              THEN /\ r.pos = Len(inputs) => r.name = "Fixed Appendix info"
                   /\ (r.pos = 1 /\ r.pos # Len(inputs)) => r.name = "Basic Appendix info"
                   /\ r.pos \notin {1, Len(inputs)} => r.name = "Appendix info apply"
              ELSE r.name = inputs[r.pos].path
    /\ \A n \in 1..(idx - 1) : IsRead(n) <=> \E m \in 1..Len(reads) : reads[m].pos = n
    /\ (apc = "done" /\ Len(inputs) = 2 /\ \A n \in 1..2 : inputs[n].kind = "dict")
          => [n \in 1..Len(source_dicts) |-> source_dicts[n].name]
                = <<"Basic Appendix info", "Fixed Appendix info">>

\* C5 witness: a single dict input has been processed and named Fixed.
C5_Witness ==
    /\ apc = "done"
    /\ Len(inputs) = 1
    /\ inputs[1].kind = "dict"
    /\ Len(source_dicts) = 1
    /\ source_dicts[1].name = "Fixed Appendix info"

----------------------------------------------------------------------------
(* Claims about set_nested_dict (specification SpecNested)                 *)

Missing == [k |-> "M", v |-> "", t |-> <<>>]

\* the entry of tree t at key path p, Missing when there is none
RECURSIVE Lookup(_, _)
Lookup(t, p) ==
    IF Head(p) \notin DOMAIN t THEN Missing
    ELSE IF Len(p) = 1 THEN t[Head(p)]
    ELSE IF t[Head(p)].k = "T" THEN Lookup(t[Head(p)].t, Tail(p))
    ELSE Missing

\* the key paths of t that end in a terminal value
RECURSIVE LeafPaths(_)
LeafPaths(t) ==
    UNION { IF t[key].k = "V" THEN {<<key>>}
            ELSE {<<key>> \o p : p \in LeafPaths(t[key].t)} : key \in DOMAIN t }

IsPrefix(p, q) == Len(p) <= Len(q) /\ SubSeq(q, 1, Len(p)) = p

\* a segment of p before the last holds a terminal value in t
Conflict(t, p) == \E n \in 1..(Len(p) - 1) : Lookup(t, SubSeq(p, 1, n)).k = "V"

\* C10 (as claimed): every key path set by an earlier call and different
\* from the path of the current call still holds its value, also when one
\* path is a proper prefix of another; a call whose path goes through a
\* terminal value raises and leaves the dict unchanged.
C10_AsClaimed ==
    ncalls > 0 =>
        /\ \A a \in assigned :
              a.keys # keys_arg => Lookup(target, a.keys) = Leaf(a.val)
        /\ raised <=> Conflict(target_before, keys_arg)
        /\ raised => target = target_before

\* C10 (amended): a call leaves every terminal key path of the dict that
\* does not start with the call's path as it was, and a call that returns
\* puts its value at its path (replacing the whole nested dict there when
\* the path is a proper prefix of earlier paths); a call whose path goes
\* through a terminal value raises and leaves the dict unchanged.
C10_FrameOfSetNested ==
    ncalls > 0 =>
        /\ \A p \in LeafPaths(target_before) :
              ~IsPrefix(keys_arg, p) => Lookup(target, p) = Lookup(target_before, p)
        /\ ~raised => Lookup(target, keys_arg) = Leaf(value_arg)
        /\ raised <=> Conflict(target_before, keys_arg)
        /\ raised => target = target_before

\* C10 witness: a call whose path is a proper prefix of an earlier terminal
\* path returned, beside an untouched terminal path; and the dict had been
\* through a raising call before (a path through a terminal value).
C10_Witness ==
    /\ ncalls = 3
    /\ ~raised
    /\ \E p \in LeafPaths(target_before) :
          IsPrefix(keys_arg, p) /\ p # keys_arg
    /\ \E p \in LeafPaths(target_before) :
          ~IsPrefix(keys_arg, p) /\ Lookup(target, p) = Lookup(target_before, p)

=============================================================================
